---- MODULE Spec2Model ----
(***************************************************************************)
(* Frame-paced resource lifecycle of the tegne / draw-it renderer.         *)
(*                                                                         *)
(* Modelled from the source:                                               *)
(*   Device (ring index, completion fences, submit)  tegne/src/device      *)
(*   Tegne  (render stage, begin_draw, end_draw, draw, draw_on_window,     *)
(*           check!, create_*, watcher)                                    *)
(*   Framebuffer::from_images (shader_index / descriptor add)              *)
(*   BuiltinMeshes::new (the meshes present after construction)            *)
(* Modelled from the specification, their code not being part of the       *)
(* source tree at hand: the generational arena (Objects), its deferred     *)
(* destroy queue, and the descriptor table (ImageUniform).                 *)
(***************************************************************************)
EXTENDS Integers, Sequences, FiniteSets, TLC

\* ------------------------------------------------------------------ bounds
IN_FLIGHT_FRAME_COUNT == 2

\* GPU resources created on top of the builtin ones
MaxResources == 2

\* GPU resources created in the runs that exercise the descriptor table
MaxImages == 3

\* capacity of the descriptor table, fixed at construction
Capacity == 2

\* watcher threads the application starts
MaxWatchers == 1

\* draw calls the application makes between two begin_draw
MaxDraws == 1

\* framebuffers created as draw targets in the runs of the frame calls
MaxTargets == 1

\* resize calls the application makes between two begin_draw
MaxResizes == 1

\* watcher threads started in the runs of the shutdown
MaxThreads == 2

\* changes made to the watched shader file
MaxChanges == 2

\* half seconds the clock of the watcher runs for
MaxClock == 4

\* vertices of the meshes given to Mesh::new, and the largest index
MaxVertices == 1

\* indices of the triangle lists given to Mesh::new
MaxIndices == 3

\* keys of the keyboard
MaxKeys == 3

\* ------------------------------------------------------------ vocabulary
Kinds == {"mesh", "shader", "framebuffer"}

FrameSlots == 0 .. (IN_FLIGHT_FRAME_COUNT - 1)

\* payload of a value-less slot and result of a failed lookup
None == [data |-> 0, shader_index |-> -1]

\* the value of a mesh or shader: the content of the GPU resource id, each
\* resource created having a content of its own
Payload(id) == [data |-> id, shader_index |-> -1]

\* the value of a framebuffer: its content and its stored shader_index
FramebufferPayload(id, index) == [data |-> id, shader_index |-> index]

NoHandle == [kind |-> "none", slot |-> 0, gen |-> 0]

CapacityExceeded == -1

\* surface, cube, sphere
BuiltinMeshes == <<1, 2, 3>>

BuiltinCount == Len(BuiltinMeshes)

VARIABLES
    render_stage,       \* Tegne.render_stage: "Before" | "During"
    panicked,           \* the process has been aborted by panic!
    current_frame,      \* Device.current_frame
    sync_queue_submit,  \* Device.sync_queue_submit: fence of slot -> signaled
    in_flight,          \* submissions the GPU has not completed, oldest first
    recording,          \* resources the frame being recorded may reference
    objects,            \* Objects: kind -> sequence of arena slots
    unused,             \* deferred destroy queue
    allocated,          \* GPU resources that are physically allocated
    next_id,            \* identity of the next GPU resource created
    image_uniform,      \* descriptor table: images, dirty, gpu copy
    watchers,           \* hot-reload watcher threads
    issued,             \* handles returned by add, in order          (history)
    removed,            \* handles given to a successful remove       (history)
    freed_log,          \* destroy entries freed by clean_unused      (history)
    add_log,            \* indices returned by the descriptor add     (history)
    ret,                \* result of the last call                    (history)
    pass,               \* frame calls and what they did to the device and
                        \* the table, since the last begin_draw     (history)
    semaphores,         \* Device.sync_acquire_image, sync_release_image:
                        \* semaphore of slot -> signals not yet waited on
    kill_channel,       \* ThreadKill: the bounded(1) channel of ()
    drop_stage,         \* how far the drop of Tegne has come
    blocked,            \* the wait the render thread is blocked in
    reload,             \* a watched shader file, its events and its watcher
    shader_modules,     \* shader modules created and not destroyed
    mesh,               \* a Mesh: its data, buffers and update flags
    keys                \* Keys: pressed, released, typed

vars == <<render_stage, panicked, current_frame, sync_queue_submit, in_flight,
          recording, objects, unused, allocated, next_id, image_uniform,
          watchers, issued, removed, freed_log, add_log, ret, pass,
          semaphores, kill_channel, drop_stage, blocked, reload,
          shader_modules, mesh, keys>>

device_vars == <<current_frame, sync_queue_submit, in_flight>>

arena_vars == <<objects, unused, allocated, issued, removed, freed_log>>

part_vars == <<blocked, reload, shader_modules, mesh, keys>>

shutdown_vars == <<kill_channel, drop_stage>>

\* ------------------------------------------------------------- the arena
FreeSlot == [state |-> "free", generation |-> 0, id |-> 0, value |-> None]

Occupied(gen, id, v) ==
    [state |-> "occupied", generation |-> gen, id |-> id, value |-> v]

Handle(k, s, g) == [kind |-> k, slot |-> s, gen |-> g]

\* variant: a slot whose payload is still queued counts as free
FreeSlots_Pending(k) ==
    {i \in 1 .. Len(objects[k]) : objects[k][i].state # "occupied"}

\* slots of kind k that add may take: value destroyed, nothing queued
FreeSlots(k) ==
    {i \in 1 .. Len(objects[k]) : objects[k][i].state = "free"}

\* the slot add(k, ..) inserts into: the lowest free slot, or a new one
AddSlot(k) ==
    IF FreeSlots(k) # {}
    THEN CHOOSE i \in FreeSlots(k) : \A j \in FreeSlots(k) : i <= j
    ELSE Len(objects[k]) + 1

\* generation add(k, ..) gives the handle: the slot's current one, 0 if new
AddGeneration(k) ==
    IF FreeSlots(k) # {} THEN objects[k][AddSlot(k)].generation ELSE 0

AddHandle(k) == Handle(k, AddSlot(k), AddGeneration(k))

\* variant: the storage always grows, the free slot is left empty
ObjectsAdd_AlwaysAppend(k, id, v) ==
    [objects EXCEPT ![k] = Append(@, Occupied(0, id, v))]

\* variant: a reused slot starts over at generation 0
ObjectsAdd_ResetGeneration(k, id, v) ==
    IF FreeSlots(k) # {}
    THEN [objects EXCEPT ![k][AddSlot(k)] = Occupied(0, id, v)]
    ELSE [objects EXCEPT ![k] = Append(@, Occupied(0, id, v))]

\* objects after add(k, v) of the GPU resource id
ObjectsAdd(k, id, v) ==
    IF FreeSlots(k) # {}
    THEN [objects EXCEPT ![k][AddSlot(k)] = Occupied(@.generation, id, v)]
    ELSE [objects EXCEPT ![k] = Append(@, Occupied(0, id, v))]

\* variant: the generation of the handle is not compared
IsValid_SlotOnly(obj, h) ==
    /\ h.kind \in Kinds
    /\ h.slot \in 1 .. Len(obj[h.kind])
    /\ obj[h.kind][h.slot].state = "occupied"

\* variant: a slot whose value was removed still answers
IsValid_AnyState(obj, h) ==
    /\ h.kind \in Kinds
    /\ h.slot \in 1 .. Len(obj[h.kind])
    /\ obj[h.kind][h.slot].state # "free"
    /\ obj[h.kind][h.slot].generation = h.gen

\* a handle is valid when its slot exists, holds a value and agrees on gen
IsValid(obj, h) ==
    /\ h.kind \in Kinds
    /\ h.slot \in 1 .. Len(obj[h.kind])
    /\ obj[h.kind][h.slot].state = "occupied"
    /\ obj[h.kind][h.slot].generation = h.gen

\* variant: the value of the slot is handed out whatever the handle
Lookup_SlotValue(obj, h) ==
    IF h.kind \in Kinds /\ h.slot \in 1 .. Len(obj[h.kind])
    THEN obj[h.kind][h.slot].value ELSE None

Lookup(obj, h) == IF IsValid(obj, h) THEN obj[h.kind][h.slot].value ELSE None

lookup(h) == Lookup(objects, h)

\* ids of the resources a draw can reach through a lookup
Visible(obj) ==
    UNION {{obj[k][i].id : i \in {j \in 1 .. Len(obj[k]) :
                                    obj[k][j].state = "occupied"}} : k \in Kinds}

\* a frame that is recorded or submitted may reference the resource id
Referenced(id) ==
    \/ id \in recording
    \/ \E i \in 1 .. Len(in_flight) : id \in in_flight[i].refs

\* a deferred destroy entry: the resource and the frame index it is marked
\* with; bump tells a removed payload from a replaced one. History fields:
\* age counts the begin_frames seen, cycled tells that one of them returned
\* the marked index, used that a frame could reference the resource when
\* it was queued
Entry(k, s, id, frame, bump) ==
    [kind |-> k, slot |-> s, id |-> id, frame |-> frame, bump |-> bump,
     age |-> 0, cycled |-> FALSE, used |-> Referenced(id)]

Min(a, b) == IF a < b THEN a ELSE b

\* remove(h) on a valid handle: the value is absent for the caller at once,
\* the GPU resource goes to the queue tagged with the active frame index
ObjectsRemove(h) ==
    [objects EXCEPT ![h.kind][h.slot].state = "removed"]

UnusedRemove(h, frame) ==
    Append(unused,
           Entry(h.kind, h.slot, objects[h.kind][h.slot].id, frame, TRUE))

\* replace(h, v) on a valid handle: the slot keeps its identity and takes
\* the new payload, the old payload is queued like a removed one
ObjectsReplace(h, id, v) ==
    [objects EXCEPT ![h.kind][h.slot] = Occupied(@.generation, id, v)]

UnusedReplace(h, frame) ==
    Append(unused,
           Entry(h.kind, h.slot, objects[h.kind][h.slot].id, frame, FALSE))

\* clean_unused(frame): an entry is safe when the ring is back on its mark
IsSafe(e, frame) == e.frame = frame

ToFree(q, frame) == SelectSeq(q, LAMBDA e : IsSafe(e, frame))

ToKeep(q, frame) == SelectSeq(q, LAMBDA e : ~IsSafe(e, frame))

Range(q) == {q[i] : i \in 1 .. Len(q)}

\* variant: the slot is made free and keeps its generation
ObjectsClean_NoBump(obj, q, frame) ==
    [k \in Kinds |->
        [i \in 1 .. Len(obj[k]) |->
            IF \E e \in Range(ToFree(q, frame)) :
                   e.bump /\ e.kind = k /\ e.slot = i
            THEN [FreeSlot EXCEPT !.generation = obj[k][i].generation]
            ELSE obj[k][i]]]

\* variant: freeing a replaced payload increments the generation as well
ObjectsClean_BumpAll(obj, q, frame) ==
    [k \in Kinds |->
        [i \in 1 .. Len(obj[k]) |->
            IF \E e \in Range(ToFree(q, frame)) :
                   e.bump /\ e.kind = k /\ e.slot = i
            THEN [FreeSlot EXCEPT !.generation = obj[k][i].generation + 1]
            ELSE IF \E e \in Range(ToFree(q, frame)) :
                        e.kind = k /\ e.slot = i
                 THEN [obj[k][i] EXCEPT !.generation = @ + 1]
                 ELSE obj[k][i]]]

\* freeing the payload of a removed slot increments the slot's generation
\* and makes the slot free; a replaced payload leaves its slot alone
ObjectsClean(obj, q, frame) ==
    [k \in Kinds |->
        [i \in 1 .. Len(obj[k]) |->
            IF \E e \in Range(ToFree(q, frame)) :
                   e.bump /\ e.kind = k /\ e.slot = i
            THEN [FreeSlot EXCEPT !.generation = obj[k][i].generation + 1]
            ELSE obj[k][i]]]

FreedIds(q, frame) == {e.id : e \in Range(ToFree(q, frame))}

\* history: what is remembered of the entries clean_unused(frame) frees
Freed(q, frame) ==
    {[id |-> e.id, bump |-> e.bump, age |-> e.age, cycled |-> e.cycled,
      used |-> e.used] : e \in Range(ToFree(q, frame))}

\* history: one more begin_frame seen by every queued entry
Aged(q, frame) ==
    [i \in 1 .. Len(q) |->
        [q[i] EXCEPT !.age = Min(@ + 1, IN_FLIGHT_FRAME_COUNT + 1),
                     !.cycled = @ \/ q[i].frame = frame]]

\* ------------------------------------------------- the descriptor table
image_count(u) == Len(u.images)

\* add(image_view): the index given to the image, or CapacityExceeded
ImageAddResult(u) ==
    IF Len(u.images) < Capacity THEN Len(u.images) ELSE CapacityExceeded

ImageAdd(u, view) ==
    IF Len(u.images) < Capacity
    THEN [u EXCEPT !.images = Append(@, view), !.dirty = TRUE]
    ELSE u

update_if_needed(u) ==
    IF u.dirty THEN [u EXCEPT !.gpu = u.images, !.dirty = FALSE] ELSE u

\* ------------------------------------------------------------ the device
\* variant: the ring index is not advanced
NextFrameIndex_Stuck(current) == current

\* Device::next_frame: the slot the ring advances to
NextFrameIndex(current) == (current + 1) % IN_FLIGHT_FRAME_COUNT

\* variant: next_frame does not wait on the fence
FenceWaitReturns_NoWait(fences, slot) == TRUE

\* Device::next_frame: fence::wait_for returns once the fence is signaled
FenceWaitReturns(fences, slot) == fences[slot]

\* variant: the index read before next_frame advanced the ring
CleanIndex_Stale(current) ==
    (current + IN_FLIGHT_FRAME_COUNT - 1) % IN_FLIGHT_FRAME_COUNT

\* variant: the index the device was constructed with
CleanIndex_Initial(current) == 0

\* Tegne::begin_draw: the frame index it hands to clean_unused
CleanIndex(current) == current

\* variant: from_images unwraps the result of the descriptor add
AddResultPanics_Unwrap(index) == index = CapacityExceeded

\* Framebuffer::from_images: the result of the descriptor add is dropped
AddResultPanics(index) == FALSE

\* variant: submit signals the fence of the slot used next
SubmitFence_Next(current) == (current + 1) % IN_FLIGHT_FRAME_COUNT

\* Device::submit: the fence queue_submit is given
SubmitFence(current) == current

\* Device::next_frame: the acquire semaphore swapchain.next is given, the
\* index being the advanced one
AcquireSemaphore(next) == next

\* variant: submit waits on the acquire semaphore of the other slot
SubmitWaits_Other(current) == (current + 1) % IN_FLIGHT_FRAME_COUNT

\* Device::submit: the acquire semaphore waited on
SubmitWaits(current) == current

\* Device::submit: the release semaphore signaled
SubmitSignals(current) == current

\* Device::present: the release semaphore swapchain.present waits on
PresentWaits(current) == current

\* a semaphore is given to an operation that signals it
Signal(sems, which, slot) == [sems EXCEPT ![which][slot] = @ + 1]

\* a semaphore is given to an operation that waits on it
Wait(sems, which, slot) == [sems EXCEPT ![which][slot] = @ - 1]

\* Device::submit: waits on the acquire semaphore, signals the release one
Submitted(sems, current) ==
    Signal(Wait(sems, "acquire", SubmitWaits(current)),
           "release", SubmitSignals(current))

\* Device::next_frame: swapchain.next, fence::wait_for, fence::reset, in the
\* order of the calls
NextFrameCalls == <<"acquire", "wait", "reset">>

\* the ways next_frame returns an error: the call that fails, and how
NextFrameFailures ==
    {[call |-> "acquire", event |-> "acquire:stale"],
     [call |-> "acquire", event |-> "acquire:error"],
     [call |-> "wait",    event |-> "wait:error"],
     [call |-> "reset",   event |-> "reset:error"]}

\* the calls next_frame has made when the call named fails: each `?` returns
\* at the first error
CallsBefore(calls, call) ==
    SubSeq(calls, 1, (CHOOSE i \in 1 .. Len(calls) : calls[i] = call) - 1)

\* variant: the ring index is stored before the fence is waited on
StoredOnFailure_Early(current, next) == next

\* Device::next_frame: the ring index an error return leaves behind, the
\* store being the last statement
StoredOnFailure(current, next) == current

\* Device::next_frame: the fences after fence::reset of the slot waited on
FenceAfterNextFrame(fences, slot) == [fences EXCEPT ![slot] = FALSE]

\* Tegne::end_draw: device.submit, then device.present
EndDrawCalls == <<"submit", "present">>

\* the ways present returns an error
PresentFailures == {"present:stale", "present:error"}

\* variant: begin_draw accepts an open frame
BeginDrawPanics_Never(stage) == FALSE

\* Tegne::begin_draw: panics during the draw stage
BeginDrawPanics(stage) == stage = "During"

\* Tegne::end_draw: panics before the draw stage
EndDrawPanics(stage) == stage = "Before"

\* variant: draw does not look at the render stage
DrawPanics_Never(stage) == FALSE

\* Tegne::draw, Tegne::draw_on_window: panic before the draw stage
DrawPanics(stage) == stage = "Before"

\* variant: the descriptor add rewrites the GPU table at once
AddFlushes_Eager == TRUE

\* Framebuffer::from_images: the add leaves the GPU table to begin_draw
AddFlushes == FALSE

\* Tegne::begin_draw: update_if_needed rewrites the GPU table when dirty
Rewrites(u) == IF u.dirty THEN <<"rewrite">> ELSE <<>>

Count(q, e) == Cardinality({i \in 1 .. Len(q) : q[i] = e})

Last(q) == q[Len(q)]

Result(op, h, v, index) == [op |-> op, h |-> h, v |-> v, index |-> index]

\* no descriptor add was part of the call
NoIndex == CapacityExceeded - 1

\* a watched file before its first change: the watcher is in its select!
NoReload ==
    [file |-> 0, events |-> <<>>, same_events |-> {}, clock |-> 0,
     pc |-> "select", wake |-> 0, loaded |-> 0]

\* the input of Mesh::new: the lengths of vertices, uvs and normals, and
\* the indices of triangles
MeshOptions ==
    [vertices : 0 .. MaxVertices,
     uvs : 0 .. (MaxVertices + 1),
     normals : 0 .. (MaxVertices + 1),
     triangles : UNION {[1 .. n -> 0 .. MaxVertices] : n \in 0 .. MaxIndices}]

\* a Mesh and what became of Mesh::new(options). History fields:
\* vertex_current and index_current tell that the buffer holds the data the
\* mesh has now, last is the last call and whether it uploaded
MeshValue(result, options, update) ==
    [result |-> result, options |-> options,
     should_update_vertices |-> update, should_update_triangles |-> update,
     vertex_current |-> FALSE, index_current |-> FALSE,
     last |-> [op |-> "new", uploaded |-> FALSE, ok |-> TRUE]]

\* no Mesh::new has returned
NoMesh ==
    MeshValue("none",
              [vertices |-> 0, uvs |-> 0, normals |-> 0, triangles |-> <<>>],
              FALSE)

\* Keys::default
NoKeys == [pressed |-> {}, released |-> {}, typed |-> {},
           last |-> [op |-> "new", key |-> 0]]

Init ==
    /\ render_stage = "Before"
    /\ panicked = FALSE
    /\ current_frame = 0
    /\ sync_queue_submit = [s \in FrameSlots |-> TRUE]
    /\ in_flight = <<>>
    /\ recording = {}
    /\ objects = [k \in Kinds |->
                     IF k = "mesh"
                     THEN [i \in 1 .. BuiltinCount |->
                              Occupied(0, i, Payload(BuiltinMeshes[i]))]
                     ELSE <<>>]
    /\ unused = <<>>
    /\ allocated = 1 .. BuiltinCount
    /\ next_id = BuiltinCount + 1
    /\ image_uniform = [images |-> <<>>, dirty |-> FALSE, gpu |-> <<>>]
    /\ watchers = <<>>
    /\ issued = [i \in 1 .. BuiltinCount |-> Handle("mesh", i, 0)]
    /\ removed = {}
    /\ freed_log = {}
    /\ add_log = <<>>
    /\ ret = Result("new", NoHandle, None, NoIndex)
    /\ pass = <<>>
    /\ semaphores = [acquire |-> [s \in FrameSlots |-> 0],
                     release |-> [s \in FrameSlots |-> 0]]
    /\ kill_channel = [messages |-> 0, connected |-> TRUE]
    /\ drop_stage = "alive"
    /\ blocked = "none"
    /\ reload = NoReload
    /\ shader_modules = 0
    /\ mesh = NoMesh
    /\ keys = NoKeys

\* --------------------------------------------------------------- actions
UserHandles == {issued[i] : i \in (BuiltinCount + 1) .. Len(issued)}

CanCreate(max) == next_id <= BuiltinCount + max

Recorded(id) == IF render_stage = "During" THEN recording \cup {id} ELSE recording

\* Tegne::begin_draw, the frame opens: next_frame waits on the fence of the
\* slot it advances to and resets it, the descriptor table is flushed and
\* clean_unused runs with the new frame index
BeginDraw ==
    LET next  == NextFrameIndex(current_frame)
        aged  == Aged(unused, next)
        frame == CleanIndex(next)
    IN  /\ ~panicked
        /\ drop_stage = "alive"
        /\ blocked = "none"
        /\ ~BeginDrawPanics(render_stage)
        /\ FenceWaitReturns(sync_queue_submit, next)
        /\ render_stage' = "During"
        /\ sync_queue_submit' = FenceAfterNextFrame(sync_queue_submit, next)
        /\ current_frame' = next
        /\ image_uniform' = update_if_needed(image_uniform)
        /\ objects' = ObjectsClean(objects, aged, frame)
        /\ unused' = ToKeep(aged, frame)
        /\ allocated' = allocated \ FreedIds(aged, frame)
        /\ freed_log' = freed_log \cup Freed(aged, frame)
        /\ recording' = Visible(objects')
        /\ ret' = Result("begin_draw", NoHandle, None, NoIndex)
        /\ pass' = <<"begin_draw">> \o NextFrameCalls
                        \o Rewrites(image_uniform) \o <<"clean_unused">>
        /\ semaphores' = Signal(semaphores, "acquire", AcquireSemaphore(next))
        /\ UNCHANGED <<panicked, in_flight, next_id, watchers, issued,
                       removed, add_log>>
        /\ UNCHANGED shutdown_vars

        /\ UNCHANGED part_vars
\* Tegne::begin_draw while a frame is open
BeginDrawDuring ==
    /\ ~panicked
    /\ drop_stage = "alive"
    /\ blocked = "none"
    /\ BeginDrawPanics(render_stage)
    /\ panicked' = TRUE
    /\ ret' = Result("panic", NoHandle, None, NoIndex)
    /\ pass' = Append(pass, "begin_draw")
    /\ UNCHANGED <<render_stage, device_vars, recording, arena_vars, next_id,
                   image_uniform, watchers, add_log>>
    /\ UNCHANGED <<semaphores, shutdown_vars>>

    /\ UNCHANGED part_vars
\* Tegne::begin_draw, next_frame returns the error f (image acquire, fence
\* wait or fence reset): check! panics, nothing after next_frame is run
BeginDrawError(f) ==
    /\ ~panicked
    /\ drop_stage = "alive"
    /\ blocked = "none"
    /\ ~BeginDrawPanics(render_stage)
    /\ render_stage' = "During"
    /\ current_frame' =
           StoredOnFailure(current_frame, NextFrameIndex(current_frame))
    /\ panicked' = TRUE
    /\ ret' = Result("panic", NoHandle, None, NoIndex)
    /\ pass' = <<"begin_draw">> \o CallsBefore(NextFrameCalls, f.call)
                    \o <<f.event>>
    /\ semaphores' =
           IF Count(CallsBefore(NextFrameCalls, f.call), "acquire") > 0
           THEN Signal(semaphores, "acquire",
                       AcquireSemaphore(NextFrameIndex(current_frame)))
           ELSE semaphores
    /\ UNCHANGED <<sync_queue_submit, in_flight, recording, arena_vars,
                   next_id, image_uniform, watchers, add_log>>
    /\ UNCHANGED shutdown_vars

    /\ UNCHANGED part_vars
\* Tegne::end_draw, the frame closes: submit hands the recorded commands to
\* the queue with the fence of the current slot, then present
EndDraw ==
    /\ ~panicked
    /\ drop_stage = "alive"
    /\ blocked = "none"
    /\ ~EndDrawPanics(render_stage)
    /\ render_stage' = "Before"
    /\ in_flight' = Append(in_flight, [slot |-> SubmitFence(current_frame),
                                       refs |-> recording])
    /\ recording' = {}
    /\ ret' = Result("end_draw", NoHandle, None, NoIndex)
    /\ pass' = Append(pass, "end_draw") \o EndDrawCalls
    /\ semaphores' = Wait(Submitted(semaphores, current_frame),
                          "release", PresentWaits(current_frame))
    /\ UNCHANGED <<panicked, current_frame, sync_queue_submit, arena_vars,
                   next_id, image_uniform, watchers, add_log>>
    /\ UNCHANGED shutdown_vars

    /\ UNCHANGED part_vars
\* Tegne::end_draw while no frame is open
EndDrawBefore ==
    /\ ~panicked
    /\ drop_stage = "alive"
    /\ blocked = "none"
    /\ EndDrawPanics(render_stage)
    /\ panicked' = TRUE
    /\ ret' = Result("panic", NoHandle, None, NoIndex)
    /\ pass' = Append(pass, "end_draw")
    /\ UNCHANGED <<render_stage, device_vars, recording, arena_vars, next_id,
                   image_uniform, watchers, add_log>>
    /\ UNCHANGED <<semaphores, shutdown_vars>>

    /\ UNCHANGED part_vars
\* Tegne::end_draw, submit returns an error: nothing reaches the queue
EndDrawSubmitError ==
    /\ ~panicked
    /\ drop_stage = "alive"
    /\ blocked = "none"
    /\ ~EndDrawPanics(render_stage)
    /\ render_stage' = "Before"
    /\ panicked' = TRUE
    /\ ret' = Result("panic", NoHandle, None, NoIndex)
    /\ pass' = pass \o <<"end_draw", "submit:error">>
    /\ UNCHANGED <<device_vars, recording, arena_vars, next_id,
                   image_uniform, watchers, add_log>>
    /\ UNCHANGED <<semaphores, shutdown_vars>>

    /\ UNCHANGED part_vars
\* Tegne::end_draw, submit succeeds and present returns the error e: check!
\* panics
EndDrawPresentError(e) ==
    /\ ~panicked
    /\ drop_stage = "alive"
    /\ blocked = "none"
    /\ ~EndDrawPanics(render_stage)
    /\ render_stage' = "Before"
    /\ in_flight' = Append(in_flight, [slot |-> SubmitFence(current_frame),
                                       refs |-> recording])
    /\ recording' = {}
    /\ panicked' = TRUE
    /\ ret' = Result("panic", NoHandle, None, NoIndex)
    /\ pass' = pass \o <<"end_draw", "submit", e>>
    /\ semaphores' = Submitted(semaphores, current_frame)
    /\ UNCHANGED <<current_frame, sync_queue_submit, arena_vars, next_id,
                   image_uniform, watchers, add_log>>
    /\ UNCHANGED shutdown_vars

    /\ UNCHANGED part_vars
\* the GPU finishes its oldest submission and signals the fence given to it
GpuComplete ==
    /\ in_flight # <<>>
    /\ sync_queue_submit' =
           [sync_queue_submit EXCEPT ![Head(in_flight).slot] = TRUE]
    /\ in_flight' = Tail(in_flight)
    /\ UNCHANGED <<render_stage, panicked, current_frame, recording,
                   arena_vars, next_id, image_uniform, watchers, add_log, ret,
                   pass>>
    /\ UNCHANGED <<semaphores, shutdown_vars>>

    /\ UNCHANGED part_vars
\* objects.add_*(value) of a freshly created GPU resource
Add(k, v) ==
    /\ objects' = ObjectsAdd(k, next_id, v)
    /\ issued' = Append(issued, AddHandle(k))
    /\ allocated' = allocated \cup {next_id}
    /\ recording' = Recorded(next_id)
    /\ next_id' = next_id + 1
    /\ UNCHANGED <<unused, removed, freed_log>>

\* Tegne::create_mesh
CreateMesh(max) ==
    /\ ~panicked
    /\ drop_stage = "alive"
    /\ blocked = "none"
    /\ CanCreate(max)
    /\ Add("mesh", Payload(next_id))
    /\ ret' = Result("add", AddHandle("mesh"), Payload(next_id), NoIndex)
    /\ UNCHANGED <<render_stage, panicked, device_vars, image_uniform,
                   watchers, add_log, pass>>
    /\ UNCHANGED <<semaphores, shutdown_vars>>

    /\ UNCHANGED part_vars
\* Tegne::create_shader
CreateShader ==
    /\ ~panicked
    /\ drop_stage = "alive"
    /\ blocked = "none"
    /\ CanCreate(MaxResources)
    /\ Add("shader", Payload(next_id))
    /\ ret' = Result("add", AddHandle("shader"), Payload(next_id), NoIndex)
    /\ UNCHANGED <<render_stage, panicked, device_vars, image_uniform,
                   watchers, add_log, pass>>
    /\ UNCHANGED <<semaphores, shutdown_vars>>

    /\ UNCHANGED part_vars
\* Tegne::create_shader_from_file_watch: the shader is added and a watcher
\* thread is started for its handle
CreateShaderWatch(max) ==
    /\ ~panicked
    /\ drop_stage = "alive"
    /\ blocked = "none"
    /\ CanCreate(MaxResources)
    /\ Len(watchers) < max
    /\ Add("shader", Payload(next_id))
    /\ watchers' = Append(watchers,
           [pc |-> "select", id_ref |-> AddHandle("shader"),
            shader |-> 0, frame |-> 0])
    /\ ret' = Result("add", AddHandle("shader"), Payload(next_id), NoIndex)
    /\ UNCHANGED <<render_stage, panicked, device_vars, image_uniform,
                   add_log, pass>>
    /\ UNCHANGED <<semaphores, shutdown_vars>>

    /\ UNCHANGED part_vars
\* Tegne::create_framebuffer through Framebuffer::from_images: shader_index
\* is image_count read before the add, whose result is not looked at
CreateFramebuffer(max) ==
    LET shader_index == image_count(image_uniform)
        index        == ImageAddResult(image_uniform)
        added        == ImageAdd(image_uniform, next_id)
    IN  /\ ~panicked
        /\ drop_stage = "alive"
        /\ blocked = "none"
        /\ CanCreate(max)
        /\ image_uniform' = IF AddFlushes THEN update_if_needed(added)
                             ELSE added
        /\ pass' = IF AddFlushes THEN pass \o Rewrites(added) ELSE pass
        /\ add_log' = IF index = CapacityExceeded THEN add_log
                      ELSE Append(add_log, index)
        /\ Add("framebuffer", FramebufferPayload(next_id, shader_index))
        /\ panicked' = AddResultPanics(index)
        /\ ret' = Result("add", AddHandle("framebuffer"),
                         FramebufferPayload(next_id, shader_index), index)
        /\ UNCHANGED <<render_stage, device_vars, watchers>>
        /\ UNCHANGED <<semaphores, shutdown_vars>>

        /\ UNCHANGED part_vars
\* remove(h): a stale handle is left alone
Remove(h) ==
    /\ ~panicked
    /\ drop_stage = "alive"
    /\ blocked = "none"
    /\ IF IsValid(objects, h)
       THEN /\ objects' = ObjectsRemove(h)
            /\ unused' = UnusedRemove(h, current_frame)
            /\ removed' = removed \cup {h}
       ELSE UNCHANGED <<objects, unused, removed>>
    /\ ret' = Result("remove", IF IsValid(objects, h) THEN h ELSE NoHandle,
                     None, NoIndex)
    /\ UNCHANGED <<render_stage, panicked, device_vars, recording, allocated,
                   next_id, image_uniform, watchers, issued, freed_log,
                   add_log, pass>>
    /\ UNCHANGED <<semaphores, shutdown_vars>>

    /\ UNCHANGED part_vars
\* watcher thread: a change event arrives, the new shader is built and the
\* arguments of replace_shader are evaluated, device.current_frame() last
WatcherBuild(w) ==
    /\ ~panicked
    /\ watchers[w].pc = "select"
    /\ CanCreate(MaxResources)
    /\ allocated' = allocated \cup {next_id}
    /\ next_id' = next_id + 1
    /\ watchers' = [watchers EXCEPT ![w].pc = "replace",
                                    ![w].shader = next_id,
                                    ![w].frame = current_frame]
    /\ UNCHANGED <<render_stage, panicked, device_vars, recording, objects,
                   unused, image_uniform, issued, removed, freed_log,
                   add_log, ret, pass>>
    /\ UNCHANGED <<semaphores, shutdown_vars>>

    /\ UNCHANGED part_vars
\* watcher thread: objects.replace_shader(id_ref, shader, frame); on a stale
\* handle the new shader is dropped
WatcherReplace(w) ==
    LET t == watchers[w]
    IN  /\ ~panicked
        /\ t.pc = "replace"
        /\ IF IsValid(objects, t.id_ref)
           THEN /\ objects' = ObjectsReplace(t.id_ref, t.shader, Payload(t.shader))
                /\ unused' = UnusedReplace(t.id_ref, t.frame)
                /\ recording' = Recorded(t.shader)
                /\ UNCHANGED allocated
           ELSE /\ allocated' = allocated \ {t.shader}
                /\ UNCHANGED <<objects, unused, recording>>
        /\ watchers' = [watchers EXCEPT ![w].pc = "select",
                                        ![w].shader = 0,
                                        ![w].frame = 0]
        /\ ret' = IF IsValid(objects, t.id_ref)
                  THEN Result("replace", t.id_ref, Payload(t.shader), NoIndex)
                  ELSE Result("replace", NoHandle, None, NoIndex)
        /\ UNCHANGED <<render_stage, panicked, device_vars, next_id,
                       image_uniform, issued, removed, freed_log, add_log,
                       pass>>
        /\ UNCHANGED <<semaphores, shutdown_vars>>

        /\ UNCHANGED part_vars
DrawCalls == {"draw", "draw_on_window"}

Draws(q) == Count(q, "draw") + Count(q, "draw_on_window")

\* Tegne::draw on the framebuffer h while a frame is open: with_framebuffer
\* runs the closure, which records the draw, when h is valid
Draw(h) ==
    /\ ~panicked
    /\ drop_stage = "alive"
    /\ blocked = "none"
    /\ ~DrawPanics(render_stage)
    /\ Draws(pass) + Count(pass, "with") < MaxDraws
    /\ h.kind = "framebuffer"
    /\ pass' = IF IsValid(objects, h)
                THEN pass \o <<"draw", "draw_callback", "record">>
                ELSE pass \o <<"draw", "draw_callback">>
    /\ ret' = Result("draw", h, lookup(h), NoIndex)
    /\ UNCHANGED <<render_stage, panicked, device_vars, recording, arena_vars,
                   next_id, image_uniform, watchers, add_log>>
    /\ UNCHANGED <<semaphores, shutdown_vars>>

    /\ UNCHANGED part_vars
\* Tegne::draw_on_window while a frame is open
DrawOnWindow ==
    /\ ~panicked
    /\ drop_stage = "alive"
    /\ blocked = "none"
    /\ ~DrawPanics(render_stage)
    /\ Draws(pass) < MaxDraws
    /\ pass' = pass \o <<"draw_on_window", "draw_callback", "record">>
    /\ ret' = Result("draw_on_window", NoHandle, None, NoIndex)
    /\ UNCHANGED <<render_stage, panicked, device_vars, recording, arena_vars,
                   next_id, image_uniform, watchers, add_log>>
    /\ UNCHANGED <<semaphores, shutdown_vars>>

    /\ UNCHANGED part_vars
\* Tegne::draw or Tegne::draw_on_window while no frame is open: the panic is
\* the first statement
DrawOutside(call) ==
    /\ ~panicked
    /\ drop_stage = "alive"
    /\ blocked = "none"
    /\ DrawPanics(render_stage)
    /\ panicked' = TRUE
    /\ pass' = Append(pass, call)
    /\ ret' = Result("panic", NoHandle, None, NoIndex)
    /\ UNCHANGED <<render_stage, device_vars, recording, arena_vars, next_id,
                   image_uniform, watchers, add_log>>
    /\ UNCHANGED <<semaphores, shutdown_vars>>

    /\ UNCHANGED part_vars
\* Device::wait_for_idle: returns once every fence has signaled and the
\* queues and the device are idle
WaitForIdleReturns(fences, flight) ==
    /\ \A s \in FrameSlots : fences[s]
    /\ flight = <<>>

\* variant: the swapchain is recreated before the device is idle
ResizeCalls_RecreateFirst ==
    <<"recreate", "wait_idle", "surface_resize", "rebuild">>

\* Tegne::resize: device.wait_for_idle, surface.resize, swapchain.recreate,
\* Framebuffer::window, in the order of the calls
ResizeCalls == <<"wait_idle", "surface_resize", "recreate", "rebuild">>

\* the ways the calls of resize return an error
ResizeFailures ==
    {[call |-> "wait_idle", event |-> "wait_idle:error"],
     [call |-> "recreate",  event |-> "recreate:error"],
     [call |-> "rebuild",   event |-> "rebuild:error"]}

\* the call named is reached without the device having to be idle
BeforeIdle(calls, call) == Count(CallsBefore(calls, call), "wait_idle") = 0

\* Tegne::resize: blocks in wait_for_idle until the device is idle
Resize ==
    /\ ~panicked
    /\ drop_stage = "alive"
    /\ blocked = "none"
    /\ Count(pass, "resize") < MaxResizes
    /\ \A call \in {"surface_resize", "recreate", "rebuild"} :
           BeforeIdle(ResizeCalls, call) \/
               WaitForIdleReturns(sync_queue_submit, in_flight)
    /\ pass' = Append(pass, "resize") \o ResizeCalls
    /\ ret' = Result("resize", NoHandle, None, NoIndex)
    /\ UNCHANGED <<render_stage, panicked, device_vars, recording, arena_vars,
                   next_id, image_uniform, watchers, add_log, semaphores,
                   shutdown_vars>>

    /\ UNCHANGED part_vars
\* Tegne::resize, one of its calls returns the error f: check! panics
ResizeError(f) ==
    /\ ~panicked
    /\ drop_stage = "alive"
    /\ blocked = "none"
    /\ Count(pass, "resize") < MaxResizes
    /\ BeforeIdle(ResizeCalls, f.call) \/ f.call = "wait_idle" \/
           WaitForIdleReturns(sync_queue_submit, in_flight)
    /\ panicked' = TRUE
    /\ pass' = Append(pass, "resize") \o CallsBefore(ResizeCalls, f.call)
                    \o <<f.event>>
    /\ ret' = Result("panic", NoHandle, None, NoIndex)
    /\ UNCHANGED <<render_stage, device_vars, recording, arena_vars, next_id,
                   image_uniform, watchers, add_log, semaphores,
                   shutdown_vars>>

    /\ UNCHANGED part_vars
\* what the closures given to with_* compute from the value
Closures == {"same", "next"}

Apply(c, v) == IF c = "next" THEN [v EXCEPT !.data = @ + 1] ELSE v

\* Tegne::with_mesh, Tegne::with_material on the handle h with the closure
\* c: the arena runs the closure on the value when h is valid
With(h, c) ==
    /\ ~panicked
    /\ drop_stage = "alive"
    /\ blocked = "none"
    /\ Draws(pass) + Count(pass, "with") < MaxDraws
    /\ h.kind = "mesh"
    /\ pass' = IF IsValid(objects, h) THEN pass \o <<"with", "closure">>
                ELSE Append(pass, "with")
    /\ ret' = Result("with", h,
                     IF IsValid(objects, h) THEN Apply(c, lookup(h)) ELSE None,
                     NoIndex)
    /\ UNCHANGED <<render_stage, panicked, device_vars, recording, arena_vars,
                   next_id, image_uniform, watchers, add_log, semaphores,
                   shutdown_vars>>

    /\ UNCHANGED part_vars
\* Tegne::create_shader on a source that does not deserialize: Shader::new
\* returns the error and check! panics
CreateShaderMalformed ==
    /\ ~panicked
    /\ drop_stage = "alive"
    /\ blocked = "none"
    /\ panicked' = TRUE
    /\ ret' = Result("create_shader:malformed", NoHandle, None, NoIndex)
    /\ UNCHANGED <<render_stage, device_vars, recording, arena_vars, next_id,
                   image_uniform, watchers, add_log, pass, semaphores,
                   shutdown_vars>>

    /\ UNCHANGED part_vars
\* watcher thread: the changed file does not deserialize, check! panics in
\* the thread
WatcherBuildMalformed(w) ==
    /\ ~panicked
    /\ watchers[w].pc = "select"
    /\ watchers' = [watchers EXCEPT ![w].pc = "panicked"]
    /\ UNCHANGED <<render_stage, panicked, device_vars, recording, arena_vars,
                   next_id, image_uniform, add_log, ret, pass, semaphores,
                   shutdown_vars>>

    /\ UNCHANGED part_vars
\* watcher thread: select! takes the kill channel, which is ready when it
\* holds a message or has lost its sender; the loop is left
WatcherKilled(w) ==
    /\ watchers[w].pc = "select"
    /\ kill_channel.messages > 0 \/ ~kill_channel.connected
    /\ kill_channel' = [kill_channel EXCEPT
                            !.messages = IF @ > 0 THEN @ - 1 ELSE 0]
    /\ watchers' = [watchers EXCEPT ![w].pc = "exited"]
    /\ UNCHANGED <<render_stage, panicked, device_vars, recording, arena_vars,
                   next_id, image_uniform, add_log, ret, pass, semaphores,
                   drop_stage>>

    /\ UNCHANGED part_vars
\* capacity of the kill channel
KillCapacity == 1

\* drop of Tegne: thread_kill.kill() sends one () on the channel
DropKill ==
    /\ ~panicked
    /\ drop_stage = "alive"
    /\ blocked = "none"
    /\ kill_channel.messages < KillCapacity
    /\ kill_channel' = [kill_channel EXCEPT !.messages = @ + 1]
    /\ drop_stage' = "killed"
    /\ ret' = Result("drop", NoHandle, None, NoIndex)
    /\ UNCHANGED <<render_stage, panicked, device_vars, recording, arena_vars,
                   next_id, image_uniform, watchers, add_log, pass,
                   semaphores>>

    /\ UNCHANGED part_vars
\* drop of Tegne: device.wait_for_idle() returns
DropWaitIdle ==
    /\ ~panicked
    /\ drop_stage = "killed"
    /\ WaitForIdleReturns(sync_queue_submit, in_flight)
    /\ drop_stage' = "idle"
    /\ UNCHANGED <<render_stage, panicked, device_vars, recording, arena_vars,
                   next_id, image_uniform, watchers, add_log, ret, pass,
                   semaphores, kill_channel>>

    /\ UNCHANGED part_vars
\* drop of Tegne: the fields are dropped after the body of drop, the sender
\* of the kill channel with them
DropFields ==
    /\ ~panicked
    /\ drop_stage = "idle"
    /\ drop_stage' = "dropped"
    /\ kill_channel' = [kill_channel EXCEPT !.connected = FALSE]
    /\ UNCHANGED <<render_stage, panicked, device_vars, recording, arena_vars,
                   next_id, image_uniform, watchers, add_log, ret, pass,
                   semaphores>>

    /\ UNCHANGED part_vars
\* Tegne::begin_draw, the fence of the slot next_frame advances to is not
\* signaled: swapchain.next has been given the acquire semaphore of the
\* slot and the render thread blocks in fence::wait_for
BeginDrawBlocked ==
    LET next == NextFrameIndex(current_frame)
    IN  /\ ~panicked
        /\ drop_stage = "alive"
        /\ blocked = "none"
        /\ ~BeginDrawPanics(render_stage)
        /\ ~FenceWaitReturns(sync_queue_submit, next)
        /\ render_stage' = "During"
        /\ semaphores' = Signal(semaphores, "acquire", AcquireSemaphore(next))
        /\ blocked' = "next_frame"
        /\ ret' = Result("begin_draw", NoHandle, None, NoIndex)
        /\ pass' = <<"begin_draw">> \o CallsBefore(NextFrameCalls, "wait")
        /\ UNCHANGED <<panicked, device_vars, recording, arena_vars, next_id,
                       image_uniform, watchers, add_log, shutdown_vars,
                       reload, shader_modules, mesh, keys>>

\* Tegne::begin_draw, the fence wait of next_frame returns: the fence is
\* reset, the index stored, and begin_draw goes on as when it did not block
BeginDrawResumed ==
    LET next  == NextFrameIndex(current_frame)
        aged  == Aged(unused, next)
        frame == CleanIndex(next)
    IN  /\ ~panicked
        /\ blocked = "next_frame"
        /\ FenceWaitReturns(sync_queue_submit, next)
        /\ blocked' = "none"
        /\ sync_queue_submit' = FenceAfterNextFrame(sync_queue_submit, next)
        /\ current_frame' = next
        /\ image_uniform' = update_if_needed(image_uniform)
        /\ objects' = ObjectsClean(objects, aged, frame)
        /\ unused' = ToKeep(aged, frame)
        /\ allocated' = allocated \ FreedIds(aged, frame)
        /\ freed_log' = freed_log \cup Freed(aged, frame)
        /\ recording' = Visible(objects')
        /\ pass' = <<"begin_draw">> \o NextFrameCalls
                        \o Rewrites(image_uniform) \o <<"clean_unused">>
        /\ UNCHANGED <<render_stage, panicked, in_flight, next_id, watchers,
                       issued, removed, add_log, ret, semaphores,
                       shutdown_vars, reload, shader_modules, mesh, keys>>

\* Tegne::resize, the device is not idle: the render thread blocks in
\* device.wait_for_idle
ResizeBlocked ==
    /\ ~panicked
    /\ drop_stage = "alive"
    /\ blocked = "none"
    /\ Count(pass, "resize") < MaxResizes
    /\ ~WaitForIdleReturns(sync_queue_submit, in_flight)
    /\ blocked' = "wait_for_idle"
    /\ pass' = Append(pass, "resize")
    /\ ret' = Result("resize", NoHandle, None, NoIndex)
    /\ UNCHANGED <<render_stage, panicked, device_vars, recording, arena_vars,
                   next_id, image_uniform, watchers, add_log, semaphores,
                   shutdown_vars, reload, shader_modules, mesh, keys>>

\* Tegne::resize, wait_for_idle returns and resize goes on
ResizeResumed ==
    /\ ~panicked
    /\ blocked = "wait_for_idle"
    /\ WaitForIdleReturns(sync_queue_submit, in_flight)
    /\ blocked' = "none"
    /\ pass' = pass \o ResizeCalls
    /\ UNCHANGED <<render_stage, panicked, device_vars, recording, arena_vars,
                   next_id, image_uniform, watchers, add_log, ret, semaphores,
                   shutdown_vars, reload, shader_modules, mesh, keys>>

\* Shader::new: the calls that create and destroy, in their order; each of
\* the first four returns its error with `?`
ShaderNewCalls ==
    <<"deserialize", "vert_module", "frag_module", "create_pipeline",
      "destroy_vert", "destroy_frag">>

\* the calls of Shader::new that fail after the source was deserialized
ShaderNewFailures == {"vert_module", "frag_module", "create_pipeline"}

\* the shader modules created and not destroyed by the calls made
LiveModules(calls) ==
    Count(calls, "vert_module") + Count(calls, "frag_module")
        - Count(calls, "destroy_vert") - Count(calls, "destroy_frag")

\* Tegne::create_shader, the call f of Shader::new returns an error:
\* Shader::new returns at once and check! panics
CreateShaderError(f) ==
    /\ ~panicked
    /\ drop_stage = "alive"
    /\ blocked = "none"
    /\ panicked' = TRUE
    /\ shader_modules' =
           shader_modules + LiveModules(CallsBefore(ShaderNewCalls, f))
    /\ ret' = Result("create_shader:error", NoHandle, None, NoIndex)
    /\ UNCHANGED <<render_stage, device_vars, recording, arena_vars, next_id,
                   image_uniform, watchers, add_log, pass, semaphores,
                   shutdown_vars, blocked, reload, mesh, keys>>

\* watcher thread: the call f of Shader::new returns an error on the
\* changed file, check! panics in the thread
WatcherBuildError(w, f) ==
    /\ ~panicked
    /\ watchers[w].pc = "select"
    /\ watchers' = [watchers EXCEPT ![w].pc = "panicked"]
    /\ shader_modules' =
           shader_modules + LiveModules(CallsBefore(ShaderNewCalls, f))
    /\ UNCHANGED <<render_stage, panicked, device_vars, recording, arena_vars,
                   next_id, image_uniform, add_log, ret, pass, semaphores,
                   shutdown_vars, blocked, reload, mesh, keys>>

\* the runs of the resource lifecycle: every call returns, none is misused
Next ==
    \/ BeginDraw
    \/ EndDraw
    \/ GpuComplete
    \/ CreateMesh(MaxResources)
    \/ CreateShader
    \/ CreateShaderWatch(MaxWatchers)
    \/ CreateFramebuffer(MaxResources)
    \/ \E h \in UserHandles : Remove(h)
    \/ \E w \in 1 .. Len(watchers) : WatcherBuild(w)
    \/ \E w \in 1 .. Len(watchers) : WatcherReplace(w)

Spec == Init /\ [][Next]_vars

\* the runs that exercise the descriptor table: framebuffers only, up to and
\* past the table's capacity
NextTable ==
    \/ BeginDraw
    \/ EndDraw
    \/ GpuComplete
    \/ CreateFramebuffer(MaxImages)
    \/ \E h \in UserHandles : Remove(h)

SpecTable == Init /\ [][NextTable]_vars

\* the runs of the frame state machine: the frame calls with the ways they
\* fail or are misused, the draws, and framebuffers as draw targets
NextFrame ==
    \/ BeginDraw
    \/ BeginDrawDuring
    \/ \E f \in NextFrameFailures : BeginDrawError(f)
    \/ EndDraw
    \/ EndDrawBefore
    \/ EndDrawSubmitError
    \/ \E e \in PresentFailures : EndDrawPresentError(e)
    \/ GpuComplete
    \/ \E h \in UserHandles : Draw(h)
    \/ DrawOnWindow
    \/ \E call \in DrawCalls : DrawOutside(call)
    \/ CreateFramebuffer(MaxTargets)
    \/ \E h \in UserHandles : Remove(h)
    \/ Resize
    \/ \E f \in ResizeFailures : ResizeError(f)

SpecFrame == Init /\ [][NextFrame]_vars

\* the runs of the handle accesses: with_* and draw on handles that are
\* valid or stale
NextAccess ==
    \/ BeginDraw
    \/ EndDraw
    \/ GpuComplete
    \/ CreateMesh(MaxTargets)
    \/ CreateFramebuffer(MaxTargets)
    \/ \E h \in UserHandles : Remove(h)
    \/ \E h \in UserHandles, c \in Closures : With(h, c)
    \/ \E h \in UserHandles : Draw(h)

SpecAccess == Init /\ [][NextAccess]_vars

\* the runs of the watcher threads up to and through the drop of Tegne
NextWatch ==
    \/ BeginDraw
    \/ EndDraw
    \/ GpuComplete
    \/ CreateShaderWatch(MaxThreads)
    \/ CreateShaderMalformed
    \/ \E w \in 1 .. Len(watchers) : WatcherBuild(w)
    \/ \E w \in 1 .. Len(watchers) : WatcherBuildMalformed(w)
    \/ \E f \in ShaderNewFailures : CreateShaderError(f)
    \/ \E w \in 1 .. Len(watchers), f \in ShaderNewFailures :
           WatcherBuildError(w, f)
    \/ \E w \in 1 .. Len(watchers) : WatcherReplace(w)
    \/ \E w \in 1 .. Len(watchers) : WatcherKilled(w)
    \/ DropKill
    \/ DropWaitIdle
    \/ DropFields

SpecWatch == Init /\ [][NextWatch]_vars

\* the other variables of the steps of one part
tegne_vars == <<render_stage, panicked, device_vars, recording, arena_vars,
                next_id, image_uniform, watchers, add_log, ret, pass,
                semaphores, shutdown_vars, blocked>>

\* start_time.elapsed().as_secs() of the event callback, the clock counting
\* half seconds
EventTime(clock) == clock \div 2

\* thread::sleep(Duration::from_millis(500)): the clock at which it ends
SleepEnds(clock) == clock + 1

\* the watcher handles an event when its time is not in same_events
IsNewEvent(same_events, time) == time \notin same_events

\* Mesh::new, the smooth normals: chunks(3) of the triangles are indexed
\* at 0, 1, 2 and the vertices at the indices found, each index checked
SmoothNormalsPanic(o) ==
    \/ Len(o.triangles) % 3 # 0
    \/ \E i \in 1 .. Len(o.triangles) : o.triangles[i] >= o.vertices

\* Mesh::new computes smooth normals when it is given no normals
NeedsSmoothNormals(o) == o.normals = 0

\* Mesh::new: the error it returns, "panic", or "Ok"
MeshNewResult(o) ==
    IF o.vertices = 0 THEN "NoVertices"
    ELSE IF Len(o.triangles) = 0 THEN "NoTriangles"
    ELSE IF o.uvs > o.vertices THEN "TooManyUvs"
    ELSE IF o.normals > o.vertices THEN "TooManyNormals"
    ELSE IF NeedsSmoothNormals(o) /\ SmoothNormalsPanic(o) THEN "panic"
    ELSE "Ok"

\* Mesh::new(device, options)
MeshNew(o) ==
    /\ mesh.result = "none"
    /\ mesh' = MeshValue(MeshNewResult(o), o, MeshNewResult(o) = "Ok")
    /\ UNCHANGED <<tegne_vars, reload, shader_modules, keys>>

MeshSetters == {"set_vertices", "set_uvs", "set_normals", "set_triangles"}

\* variant: only set_vertices asks for a new upload of the vertices
DirtiesVertices_OnlyVertices(setter) == setter = "set_vertices"

\* the setters that set should_update_vertices
DirtiesVertices(setter) ==
    setter \in {"set_vertices", "set_uvs", "set_normals"}

\* the setters that set should_update_triangles
DirtiesTriangles(setter) == setter = "set_triangles"

\* Mesh::set_vertices, set_uvs, set_normals, set_triangles: the mesh takes
\* the data given, which the buffers do not hold
MeshSet(setter) ==
    /\ mesh.result = "Ok"
    /\ mesh' = [mesh EXCEPT
                    !.should_update_vertices = @ \/ DirtiesVertices(setter),
                    !.should_update_triangles = @ \/ DirtiesTriangles(setter),
                    !.vertex_current =
                        @ /\ setter = "set_triangles",
                    !.index_current =
                        @ /\ setter # "set_triangles",
                    !.last = [op |-> setter, uploaded |-> FALSE, ok |-> TRUE]]
    /\ UNCHANGED <<tegne_vars, reload, shader_modules, keys>>

\* Mesh::vk_vertex_buffer: update_data when should_update_vertices, the
\* flag cleared when it returned Ok (ok), left when it returned an error
VkVertexBuffer(ok) ==
    /\ mesh.result = "Ok"
    /\ mesh' =
           IF mesh.should_update_vertices
           THEN [mesh EXCEPT
                    !.should_update_vertices = ~ok,
                    !.vertex_current = ok,
                    !.last = [op |-> "vk_vertex_buffer", uploaded |-> ok,
                              ok |-> ok]]
           ELSE [mesh EXCEPT
                    !.last = [op |-> "vk_vertex_buffer", uploaded |-> FALSE,
                              ok |-> TRUE]]
    /\ UNCHANGED <<tegne_vars, reload, shader_modules, keys>>

\* Mesh::vk_index_buffer: update_data when should_update_triangles
VkIndexBuffer(ok) ==
    /\ mesh.result = "Ok"
    /\ mesh' =
           IF mesh.should_update_triangles
           THEN [mesh EXCEPT
                    !.should_update_triangles = ~ok,
                    !.index_current = ok,
                    !.last = [op |-> "vk_index_buffer", uploaded |-> ok,
                              ok |-> ok]]
           ELSE [mesh EXCEPT
                    !.last = [op |-> "vk_index_buffer", uploaded |-> FALSE,
                              ok |-> TRUE]]
    /\ UNCHANGED <<tegne_vars, reload, shader_modules, keys>>

\* the runs of one Mesh: its construction, its setters and the uploads of
\* its buffers
NextMesh ==
    \/ \E o \in MeshOptions : MeshNew(o)
    \/ \E setter \in MeshSetters : MeshSet(setter)
    \/ \E ok \in BOOLEAN : VkVertexBuffer(ok)
    \/ \E ok \in BOOLEAN : VkIndexBuffer(ok)

SpecMesh == Init /\ [][NextMesh]_vars

KeyCodes == 1 .. MaxKeys

\* variant: a release leaves the key typed
KeysHandle_KeepTyped(k, key, state) ==
    IF state = "Pressed"
    THEN [k EXCEPT !.pressed = @ \cup {key},
                   !.typed = @ \cup {key},
                   !.released = @ \ {key},
                   !.last = [op |-> state, key |-> key]]
    ELSE [k EXCEPT !.released = @ \cup {key},
                   !.pressed = @ \ {key},
                   !.last = [op |-> state, key |-> key]]

\* Keys::handle(key, state); last is the event handled (history)
KeysHandle(k, key, state) ==
    IF state = "Pressed"
    THEN [k EXCEPT !.pressed = @ \cup {key},
                   !.typed = @ \cup {key},
                   !.released = @ \ {key},
                   !.last = [op |-> state, key |-> key]]
    ELSE [k EXCEPT !.released = @ \cup {key},
                   !.pressed = @ \ {key},
                   !.typed = @ \ {key},
                   !.last = [op |-> state, key |-> key]]

\* Keys::clear_typed
KeysClearTyped(k) ==
    [k EXCEPT !.typed = {}, !.last = [op |-> "clear_typed", key |-> 0]]

\* the event loop, WindowEvent::KeyboardInput of a key the window knows
KeyboardInput(key, state) ==
    /\ keys' = KeysHandle(keys, key, state)
    /\ UNCHANGED <<tegne_vars, reload, shader_modules, mesh>>

\* the event loop, Event::MainEventsCleared: draw(&events), which reads
\* the keys, then clear_typed
MainEventsCleared ==
    /\ keys' = KeysClearTyped(keys)
    /\ UNCHANGED <<tegne_vars, reload, shader_modules, mesh>>

\* the runs of the keys of the window's event loop
NextKeys ==
    \/ \E key \in KeyCodes, state \in {"Pressed", "Released"} :
           KeyboardInput(key, state)
    \/ MainEventsCleared

SpecKeys == Init /\ [][NextKeys]_vars

\* the watched file is written: the callback of the watcher sends the event
\* with its time on the channel
FileChange ==
    /\ reload.file < MaxChanges
    /\ reload' = [reload EXCEPT
                      !.file = @ + 1,
                      !.events = Append(@, EventTime(reload.clock))]
    /\ UNCHANGED <<tegne_vars, shader_modules, mesh, keys>>

\* half a second passes
Tick ==
    /\ reload.clock < MaxClock
    /\ reload' = [reload EXCEPT !.clock = @ + 1]
    /\ UNCHANGED <<tegne_vars, shader_modules, mesh, keys>>

\* watcher thread: select! takes an event; an event with a time seen
\* before is dropped, another one is noted and the thread sleeps
WatcherEvent ==
    /\ reload.pc = "select"
    /\ reload.events # <<>>
    /\ reload' =
           IF IsNewEvent(reload.same_events, Head(reload.events))
           THEN [reload EXCEPT
                    !.events = Tail(@),
                    !.same_events = @ \cup {Head(reload.events)},
                    !.pc = "sleep",
                    !.wake = SleepEnds(reload.clock)]
           ELSE [reload EXCEPT !.events = Tail(@)]
    /\ UNCHANGED <<tegne_vars, shader_modules, mesh, keys>>

\* watcher thread: the sleep is over, the file is read, the shader built
\* from it and put in place of the old one
WatcherReload ==
    /\ reload.pc = "sleep"
    /\ reload.clock >= reload.wake
    /\ reload' = [reload EXCEPT !.pc = "select", !.loaded = reload.file]
    /\ UNCHANGED <<tegne_vars, shader_modules, mesh, keys>>

\* the runs of one watched file and its watcher thread
NextReload ==
    \/ FileChange
    \/ Tick
    \/ WatcherEvent
    \/ WatcherReload

SpecReload == Init /\ [][NextReload]_vars

\* the runs of the frame pacing: the waits of next_frame and wait_for_idle
\* as steps of their own, the render thread blocked in between
NextPace ==
    \/ BeginDraw
    \/ BeginDrawBlocked
    \/ BeginDrawResumed
    \/ EndDraw
    \/ GpuComplete
    \/ Resize
    \/ ResizeBlocked
    \/ ResizeResumed
    \/ CreateShaderWatch(MaxWatchers)
    \/ \E w \in 1 .. Len(watchers) : WatcherBuild(w)
    \/ \E w \in 1 .. Len(watchers) : WatcherReplace(w)
    \/ DropKill
    \/ DropWaitIdle
    \/ DropFields

SpecPace == Init /\ [][NextPace]_vars

TypeOK ==
    /\ render_stage \in {"Before", "During"}
    /\ panicked \in BOOLEAN
    /\ current_frame \in FrameSlots
    /\ sync_queue_submit \in [FrameSlots -> BOOLEAN]
    /\ next_id \in 1 .. (BuiltinCount + MaxResources + MaxImages + 1)
    /\ allocated \subseteq 1 .. (BuiltinCount + MaxResources + MaxImages)
    /\ Len(pass) <= 4 * MaxDraws + 5 * MaxResizes + 10
    /\ drop_stage \in {"alive", "killed", "idle", "dropped"}
    /\ kill_channel.messages \in 0 .. KillCapacity
    /\ Len(watchers) <= MaxThreads
    /\ blocked \in {"none", "next_frame", "wait_for_idle"}
    /\ shader_modules \in 0 .. (2 * (MaxThreads + 1))

\* ---------------------------------------------------------------- claims

\* C1: the frames submitted to the GPU whose completion fence has not
\* signaled are never more than IN_FLIGHT_FRAME_COUNT, whatever the order of
\* begin_draw, end_draw and GPU completions.
C1_InFlightBound == Len(in_flight) <= IN_FLIGHT_FRAME_COUNT

C1_Witness == Len(in_flight) = IN_FLIGHT_FRAME_COUNT

\* C2: a resource queued by remove is freed only after IN_FLIGHT_FRAME_COUNT
\* begin_frames have passed since the removal, and then no frame that is
\* submitted and not completed, nor the frame being recorded, references it.
C2_NoEarlyFree ==
    \A e \in freed_log :
        e.bump => /\ e.age >= IN_FLIGHT_FRAME_COUNT
                  /\ ~Referenced(e.id)

C2_Witness ==
    \E e \in freed_log : e.bump /\ e.used /\ in_flight # <<>>

\* C3: a handle given to a successful remove looks up as None from then on,
\* while its resource stays allocated in the queue, marked with the frame
\* index that was current at the remove, until clean_unused frees it.
C3_RemovedIsNone ==
    /\ \A h \in removed : lookup(h) = None
    /\ \A i \in 1 .. Len(unused) : unused[i].id \in allocated
    /\ (ret.op = "remove" /\ ret.h # NoHandle) =>
           /\ unused # <<>>
           /\ unused[Len(unused)].kind = ret.h.kind
           /\ unused[Len(unused)].slot = ret.h.slot
           /\ unused[Len(unused)].frame = current_frame
           /\ unused[Len(unused)].age = 0

C3_Witness ==
    /\ ret.op = "remove"
    /\ ret.h \in removed
    /\ unused # <<>>
    /\ unused[Len(unused)].id \in allocated

\* C4: right after add(v) the returned handle looks up as v, both when the
\* add took a free slot and when it grew the storage.
C4_AddThenLookup == ret.op = "add" => lookup(ret.h) = ret.v

C4_Witness == ret.op = "add" /\ ret.h.gen > 0 /\ lookup(ret.h) = ret.v

\* C5: a handle whose slot has moved on to another generation looks up as
\* None in every later state, also once the slot holds a new resource.
Outdated(obj, h) ==
    /\ h.slot \in 1 .. Len(obj[h.kind])
    /\ obj[h.kind][h.slot].generation # h.gen

C5_StaleForever ==
    [][\A i \in 1 .. Len(issued) :
          Outdated(objects, issued[i]) => Lookup(objects', issued[i]) = None]_vars

C5_Witness ==
    \E i \in 1 .. Len(issued) :
        /\ Outdated(objects, issued[i])
        /\ objects[issued[i].kind][issued[i].slot].state = "occupied"

\* C6: no two adds return the same handle, so a removed handle is never the
\* handle of a resource added later in its slot.
C6_NoAlias ==
    \A i, j \in 1 .. Len(issued) : i # j => issued[i] # issued[j]

C6_Witness ==
    \E i, j \in 1 .. Len(issued) :
        /\ i < j
        /\ issued[i].kind = issued[j].kind
        /\ issued[i].slot = issued[j].slot
        /\ issued[i] \in removed
        /\ IsValid(objects, issued[j])

\* the render loop keeps running frames and the GPU completes what it is
\* given: begin_draw, end_draw and fence signals are not postponed forever
LiveSpec ==
    /\ Init
    /\ [][Next]_vars
    /\ WF_vars(BeginDraw)
    /\ WF_vars(EndDraw)
    /\ WF_vars(GpuComplete)

Ids == 1 .. (BuiltinCount + MaxResources)

Queued(id) == \E i \in 1 .. Len(unused) : unused[i].id = id

\* C7: while frames keep running, every resource in the deferred destroy
\* queue is eventually freed and out of the queue.
C7_NoLeak ==
    \A id \in Ids :
        Queued(id) ~> (panicked \/ (~Queued(id) /\ id \notin allocated))

C7_Witness ==
    \E e \in freed_log : ~Queued(e.id) /\ e.id \notin allocated /\ ~panicked

\* C8: an entry is freed by the first begin_frame after it was queued that
\* returns the frame index it is marked with: no entry stays queued past
\* such a begin_frame, none is freed by a begin_frame returning another
\* index, and a removed resource is freed by the IN_FLIGHT_FRAME_COUNT-th
\* begin_frame after the remove.
C8_ExactCycle ==
    /\ \A i \in 1 .. Len(unused) : ~unused[i].cycled
    /\ \A e \in freed_log : e.cycled
    /\ \A e \in freed_log : e.bump => e.age = IN_FLIGHT_FRAME_COUNT
    /\ \A i \in 1 .. Len(unused) :
           unused[i].bump => unused[i].age < IN_FLIGHT_FRAME_COUNT

C8_Witness ==
    /\ \E e \in freed_log : e.bump /\ e.age = IN_FLIGHT_FRAME_COUNT
    /\ \E i \in 1 .. Len(unused) : unused[i].bump /\ unused[i].age = 1

\* C9: the descriptor add returns 0, 1, 2, ... in this order and never an
\* index twice, and the shader_index a framebuffer stores is the index its
\* image was given in the table.
FramebufferSlots ==
    {i \in 1 .. Len(objects["framebuffer"]) :
        objects["framebuffer"][i].state = "occupied"}

C9_IndexIsAssigned ==
    /\ \A i \in 1 .. Len(add_log) : add_log[i] = i - 1
    /\ \A i \in FramebufferSlots :
           LET f == objects["framebuffer"][i]
           IN  /\ f.value.shader_index < Len(image_uniform.images)
               /\ image_uniform.images[f.value.shader_index + 1] = f.id

DeviceCalls(q) ==
    SelectSeq(q, LAMBDA e : e \in {"acquire", "record", "submit", "present"})

FrameCalls(q) == SelectSeq(q, LAMBDA e : e \in {"begin_draw", "end_draw"})

Rank(e) ==
    CASE e = "acquire" -> 1
      [] e = "record"  -> 2
      [] e = "submit"  -> 3
      [] e = "present" -> 4

\* acquire, then the recorded draws, then submit, then present
FrameOrder(q) ==
    LET d == DeviceCalls(q)
    IN  /\ \A i \in 1 .. Len(d) - 1 : Rank(d[i]) <= Rank(d[i + 1])
        /\ \A e \in {"acquire", "submit", "present"} : Count(d, e) <= 1
        /\ d # <<>> => d[1] = "acquire"
        /\ Count(d, "present") = Count(d, "submit")

\* the step is the call named, made in the pass so far
Extends(call) ==
    /\ Len(pass') > Len(pass)
    /\ SubSeq(pass', 1, Len(pass)) = pass
    /\ pass'[Len(pass) + 1] = call

\* C11: the GPU copy of the descriptor table is rewritten at most once per
\* frame: begin_draw rewrites it once when the table is dirty, whatever the
\* number of adds since the last frame, not at all when it is clean, and
\* nothing else rewrites it.
C11_OneRewritePerFrame ==
    /\ [](Count(pass, "rewrite") <= 1)
    /\ [][image_uniform'.gpu # image_uniform.gpu =>
            /\ image_uniform.dirty
            /\ render_stage = "Before" /\ render_stage' = "During"
            /\ image_uniform'.gpu = image_uniform.images]_vars
    /\ [][current_frame' # current_frame =>
            /\ Count(pass', "rewrite") = IF image_uniform.dirty THEN 1 ELSE 0
            /\ ~image_uniform.dirty => image_uniform'.gpu = image_uniform.gpu
            /\ ~image_uniform'.dirty]_vars

C11_Witness ==
    /\ Count(pass, "rewrite") = 1
    /\ Len(image_uniform.gpu) >= 2
    /\ render_stage = "During"
    /\ ~panicked

\* C12: draw and draw_on_window called while no frame is open panic, and
\* nothing is recorded and no resource touched before the panic.
C12_DrawOutsideFrame ==
    [][\A call \in DrawCalls :
          (render_stage = "Before" /\ Extends(call)) =>
              /\ panicked'
              /\ pass' = Append(pass, call)
              /\ UNCHANGED <<device_vars, recording, arena_vars,
                             image_uniform>>]_vars

C12_Witness ==
    /\ panicked
    /\ render_stage = "Before"
    /\ Last(pass) \in DrawCalls
    /\ Count(pass, "present") = 1

\* C13: while nothing panics begin_draw and end_draw alternate, begin_draw
\* first; begin_draw in an open frame and end_draw in a closed one panic;
\* the device calls of one pass are acquire, the recorded draws, submit,
\* present, in this order.
C13_FrameStateMachine ==
    /\ [](~panicked =>
            /\ FrameOrder(pass)
            /\ render_stage = "During" <=> FrameCalls(pass) = <<"begin_draw">>
            /\ render_stage = "Before" =>
                   FrameCalls(pass) \in {<<>>, <<"begin_draw", "end_draw">>})
    /\ [][current_frame' # current_frame =>
            render_stage = "Before" /\ render_stage' = "During"]_vars
    /\ [][Len(in_flight') > Len(in_flight) /\ ~panicked' =>
            render_stage = "During" /\ render_stage' = "Before"]_vars
    /\ [][\/ render_stage = "During" /\ Extends("begin_draw")
          \/ render_stage = "Before" /\ Extends("end_draw")
          => panicked']_vars

C13_Witness ==
    /\ ~panicked
    /\ render_stage = "Before"
    /\ DeviceCalls(pass) = <<"acquire", "record", "submit", "present">>
    /\ Len(in_flight) = IN_FLIGHT_FRAME_COUNT

\* C14: when begin_draw has returned, the fence it waited on is still
\* signaled; a fence is unsignaled only by end_draw.
C14_ResetInEndFrame ==
    /\ [](render_stage = "During" /\ ~panicked =>
            sync_queue_submit[current_frame])
    /\ [][\A s \in FrameSlots :
              sync_queue_submit[s] /\ ~sync_queue_submit'[s] =>
                  render_stage = "During" /\ render_stage' = "Before"]_vars

\* C15: an error of the fence wait in begin_draw aborts by panic after one
\* attempt: the ring index, the fences, the queue and the arena are as
\* before the call, and no submit, present or cleanup follows.
C15_FenceWaitFatal ==
    /\ [](pass # <<>> /\ Last(pass) = "wait:error" =>
            /\ panicked
            /\ Count(pass, "wait") + Count(pass, "wait:error") = 1
            /\ \A e \in {"reset", "rewrite", "clean_unused", "submit",
                          "present"} : Count(pass, e) = 0)
    /\ [][pass' # pass /\ Last(pass') = "wait:error" =>
            UNCHANGED <<device_vars, recording, arena_vars,
                        image_uniform>>]_vars
    /\ [][panicked =>
            /\ pass' = pass
            /\ Len(in_flight') <= Len(in_flight)
            /\ UNCHANGED <<current_frame, arena_vars, image_uniform>>]_vars

C15_Witness ==
    /\ panicked
    /\ Last(pass) = "wait:error"
    /\ \E i \in 1 .. Len(unused) :
           unused[i].frame = NextFrameIndex(current_frame)

\* C16: a stale surface on acquire is answered by recreating and acquiring
\* once more: only the second stale acquire in a row aborts.
C16_StaleAcquireRetried ==
    (pass # <<>> /\ Last(pass) = "acquire:stale") =>
        /\ Count(pass, "acquire:stale") = 2
        /\ Count(pass, "recreate") = 1

\* C17: a stale surface on present does not abort the process.
C17_StalePresentRecoverable ==
    Count(pass, "present:stale") > 0 => ~panicked

\* C18: remove of a handle that was removed before changes neither the
\* arena nor the queue and raises nothing.
C18_StaleRemoveNoOp ==
    [][\A h \in removed :
          Remove(h) =>
              /\ UNCHANGED <<objects, unused, allocated, issued, removed>>
              /\ ~panicked'
              /\ ret'.h = NoHandle]_vars

C18_Witness ==
    /\ ret.op = "remove"
    /\ ret.h = NoHandle
    /\ \E h \in removed : objects[h.kind][h.slot].state = "occupied"

GenerationOf(h) == objects[h.kind][h.slot].generation

\* C19 as stated: a handle looks up as a value exactly when the generation
\* of its slot is the one of the handle.
C19_ValidIffGenEqual ==
    \A i \in 1 .. Len(issued) :
        lookup(issued[i]) # None <=> GenerationOf(issued[i]) = issued[i].gen

\* C19 amended: a handle looks up as a value exactly when the generation of
\* its slot is the one of the handle and the handle was not given to remove.
C19_ValidIffGenEqualNotRemoved ==
    \A i \in 1 .. Len(issued) :
        lookup(issued[i]) # None <=>
            /\ GenerationOf(issued[i]) = issued[i].gen
            /\ issued[i] \notin removed

C19_Witness ==
    \E h \in removed : GenerationOf(h) = h.gen /\ lookup(h) = None

\* C20: after replace(h, v) the handle h is valid and looks up as v until
\* it is replaced again or removed, and the old payload is freed with the
\* deferral of a remove: after IN_FLIGHT_FRAME_COUNT begin_frames, when no
\* frame references it.
C20_ReplaceKeepsHandle ==
    /\ [](ret.op = "replace" /\ ret.h # NoHandle => lookup(ret.h) = ret.v)
    /\ [][\A i \in 1 .. Len(issued) :
              LET h == issued[i]
              IN  IsValid(objects, h) =>
                      \/ h \in removed'
                      \/ Lookup(objects', h) = Lookup(objects, h)
                      \/ /\ ret'.op = "replace" /\ ret'.h = h
                         /\ Lookup(objects', h) = ret'.v]_vars
    /\ [](\A e \in freed_log :
              ~e.bump => /\ e.age >= IN_FLIGHT_FRAME_COUNT
                         /\ ~Referenced(e.id))

\* C21: a watcher thread changes neither the arena nor its queue: the step
\* by which a watcher finishes a rebuild leaves both as they were.
C21_WatcherNeverMutates ==
    [][\A w \in 1 .. Len(watchers) :
          (watchers[w].pc = "replace" /\ watchers'[w].pc = "select") =>
              UNCHANGED <<objects, unused>>]_vars

\* who is gone from the select loop of its watcher thread
Exited(w) == watchers[w].pc \in {"exited", "panicked"}

\* C22: once drop has sent the kill and while the channel has its sender,
\* every watcher still in its loop has a kill to observe.
C22_KillIsBroadcast ==
    (drop_stage # "alive" /\ kill_channel.connected) =>
        \A w \in 1 .. Len(watchers) :
            ~Exited(w) => kill_channel.messages > 0

\* C23: the idle wait of drop returns only when every watcher has left its
\* loop, and no watcher builds or applies a replacement after it.
C23_JoinBeforeTeardown ==
    /\ [](drop_stage \in {"idle", "dropped"} =>
            \A w \in 1 .. Len(watchers) : Exited(w))
    /\ [][(drop_stage # "alive" /\ drop_stage # "killed") =>
            \A w \in 1 .. Len(watchers) :
                watchers'[w].pc \in {watchers[w].pc, "exited"}]_vars

\* C24: resize waits for the device to be idle, then resizes the surface,
\* recreates the swapchain and rebuilds the window framebuffers, in this
\* order; the swapchain is recreated only while no submitted frame is
\* outstanding.
C24_ResizeOrder ==
    [][Extends("resize") =>
          LET done == SelectSeq(SubSeq(pass', Len(pass) + 1, Len(pass')),
                                LAMBDA e : Count(ResizeCalls, e) > 0)
          IN  /\ Count(done, "recreate") > 0 =>
                     /\ in_flight = <<>>
                     /\ \A s \in FrameSlots : sync_queue_submit[s]
                     /\ SubSeq(done, 1, 3) =
                            <<"wait_idle", "surface_resize", "recreate">>
              /\ ~panicked' =>
                     /\ done = <<"wait_idle", "surface_resize", "recreate",
                                 "rebuild">>
                     /\ UNCHANGED <<device_vars, arena_vars,
                                    image_uniform>>]_vars

C24_Witness ==
    /\ ~panicked
    /\ Count(pass, "rebuild") = 1
    /\ Count(pass, "present") = 1

\* C25: a shader source that does not deserialize makes shader creation
\* return an error: neither the process nor a watcher thread panics.
C25_MalformedIsError ==
    /\ ret.op = "create_shader:malformed" => ~panicked
    /\ \A w \in 1 .. Len(watchers) : watchers[w].pc # "panicked"

\* what a call with a handle runs before it looks the handle up: draw
\* fills its target with the draw_callback
Prelude(call) == IF call = "draw" THEN <<call, "draw_callback">> ELSE <<call>>

\* the closure a call hands to the arena with the handle
Closure(call) == IF call = "draw" THEN "record" ELSE "closure"

C27_IndexAdvance ==
    /\ [][current_frame' # current_frame =>
            /\ current_frame' = (current_frame + 1) % IN_FLIGHT_FRAME_COUNT
            /\ sync_queue_submit[current_frame']
            /\ pass'[1] = "begin_draw"
            /\ Count(pass', "wait") = 1
            /\ ~panicked']_vars
    /\ [][Len(in_flight') > Len(in_flight) =>
            /\ Last(in_flight').slot = current_frame
            /\ current_frame' = current_frame]_vars

C27_Witness ==
    /\ ~panicked
    /\ render_stage = "During"
    /\ current_frame = 0
    /\ Len(in_flight) = 1
    /\ in_flight[1].slot = 1

\* C28: in an open frame the acquire semaphore of the current slot is the
\* one signaled semaphore; in a closed frame none is: every signal was
\* waited on once, none is signaled twice without a wait.
C28_SemaphoreChain ==
    /\ \A which \in {"acquire", "release"}, s \in FrameSlots :
           semaphores[which][s] \in {0, 1}
    /\ ~panicked =>
           \A which \in {"acquire", "release"}, s \in FrameSlots :
               semaphores[which][s] =
                   IF /\ render_stage = "During"
                      /\ which = "acquire"
                      /\ s = current_frame
                   THEN 1 ELSE 0

C28_Witness ==
    /\ ~panicked
    /\ render_stage = "During"
    /\ current_frame = 0
    /\ semaphores.acquire[0] = 1
    /\ Len(in_flight) = 1

\* the entries of the slot i of kind k that this step frees
FreedOf(k, i) ==
    {j \in 1 .. Len(unused) :
        /\ unused[j].kind = k
        /\ unused[j].slot = i
        /\ unused[j].id \in allocated
        /\ unused[j].id \notin allocated'}

\* C29 as stated: the generation of a slot grows by one in the steps that
\* free a queued resource of the slot, and is unchanged by every other
\* step.
C29_BumpPerFree ==
    [][\A k \in Kinds :
          \A i \in 1 .. Len(objects[k]) :
              objects'[k][i].generation =
                  objects[k][i].generation +
                      (IF FreedOf(k, i) # {} THEN 1 ELSE 0)]_vars

\* C29 amended: the generation of a slot grows by one in the steps that
\* free the resource of a removed handle of the slot; freeing a payload
\* that replace queued, and every other step, leave it unchanged.
C29_BumpPerRemovedFree ==
    [][\A k \in Kinds :
          \A i \in 1 .. Len(objects[k]) :
              objects'[k][i].generation =
                  objects[k][i].generation +
                      (IF \E j \in FreedOf(k, i) : unused[j].bump
                       THEN 1 ELSE 0)]_vars

C29_Witness ==
    /\ \E e \in freed_log : ~e.bump
    /\ \E e \in freed_log : e.bump
    /\ \E k \in Kinds :
           \E i \in 1 .. Len(objects[k]) : objects[k][i].generation > 0

\* C30: an entry is freed only when it is safe, the ring having come back
\* to its mark after a full cycle; what is freed is in the queue no more
\* and is freed once; what is queued is allocated and queued once.
C30_ForwardOnly ==
    /\ \A e \in freed_log : e.cycled /\ e.age >= IN_FLIGHT_FRAME_COUNT
    /\ \A e \in freed_log :
           /\ e.id \notin allocated
           /\ \A i \in 1 .. Len(unused) : unused[i].id # e.id
    /\ \A i \in 1 .. Len(unused) :
           /\ unused[i].id \in allocated
           /\ \A j \in 1 .. Len(unused) :
                  unused[j].id = unused[i].id => j = i

\* C31: the acquire semaphore of a slot is given to an image acquire only
\* when the fence of the slot has signaled and no submission of the slot
\* is outstanding.
C31_AcquireAfterFence ==
    [][\A s \in FrameSlots :
          semaphores'.acquire[s] > semaphores.acquire[s] =>
              /\ sync_queue_submit[s]
              /\ \A i \in 1 .. Len(in_flight) : in_flight[i].slot # s]_vars

\* C32: while the render thread is in wait_for_idle, in resize or in drop,
\* every fence is signaled or has an outstanding submission that will
\* signal it.
C32_IdleWaitTerminates ==
    (blocked = "wait_for_idle" \/ drop_stage = "killed") =>
        \A s \in FrameSlots :
            \/ sync_queue_submit[s]
            \/ \E i \in 1 .. Len(in_flight) : in_flight[i].slot = s

\* C33: a payload queued by replace is not freed in a step before which a
\* submitted frame that could use it is outstanding.
C33_ReplacedOutlivesFrames ==
    [][\A j \in 1 .. Len(unused) :
          (/\ ~unused[j].bump
           /\ unused[j].id \in allocated
           /\ unused[j].id \notin allocated') =>
              \A i \in 1 .. Len(in_flight) :
                  unused[j].id \notin in_flight[i].refs]_vars

\* C34: when the watcher is in its select! and no event is left on its
\* channel, the shader in the arena is built from the content the file has.
C34_ReloadConverges ==
    (reload.pc = "select" /\ reload.events = <<>>) =>
        reload.loaded = reload.file

\* C35: when Shader::new has returned, with a shader or with an error, no
\* shader module it created is left undestroyed.
C35_ModulesReleased == shader_modules = 0

\* C36: Mesh::new returns NoVertices for no vertices, else NoTriangles for
\* no triangles, else TooManyUvs for more uvs than vertices, else
\* TooManyNormals for more normals than vertices, and returns a mesh for
\* every other input: it never panics.
C36_MeshNewRejects ==
    mesh.result # "none" =>
        LET o == mesh.options
        IN  mesh.result =
                IF o.vertices = 0 THEN "NoVertices"
                ELSE IF Len(o.triangles) = 0 THEN "NoTriangles"
                ELSE IF o.uvs > o.vertices THEN "TooManyUvs"
                ELSE IF o.normals > o.vertices THEN "TooManyNormals"
                ELSE "Ok"

\* C37: a flag of the mesh is set exactly when its data changed, by
\* construction or a setter of that data, since the last upload that
\* succeeded; vk_vertex_buffer and vk_index_buffer upload exactly when
\* their flag is set, clear it when the upload succeeded and leave it set
\* when it failed.
C37_LazyExactUpload ==
    /\ [](mesh.result = "Ok" =>
            /\ mesh.should_update_vertices <=> ~mesh.vertex_current
            /\ mesh.should_update_triangles <=> ~mesh.index_current)
    /\ [][mesh'.last.op = "vk_vertex_buffer" /\ mesh' # mesh =>
            /\ (mesh'.last.uploaded \/ ~mesh'.last.ok)
                   <=> mesh.should_update_vertices
            /\ mesh'.should_update_vertices <=> ~mesh'.last.ok
            /\ mesh'.should_update_triangles = mesh.should_update_triangles
          ]_vars
    /\ [][mesh'.last.op = "vk_index_buffer" /\ mesh' # mesh =>
            /\ (mesh'.last.uploaded \/ ~mesh'.last.ok)
                   <=> mesh.should_update_triangles
            /\ mesh'.should_update_triangles <=> ~mesh'.last.ok
            /\ mesh'.should_update_vertices = mesh.should_update_vertices
          ]_vars

C37_Witness ==
    /\ mesh.result = "Ok"
    /\ mesh.last = [op |-> "vk_vertex_buffer", uploaded |-> FALSE,
                    ok |-> TRUE]
    /\ mesh.vertex_current
    /\ mesh.should_update_triangles

\* C38: whatever the key events and clear_typed calls, no key is both
\* pressed and released, every typed key is pressed, clear_typed leaves no
\* key typed, and a key becomes typed only by a press event of that key.
C38_KeySets ==
    /\ [](/\ keys.pressed \cap keys.released = {}
          /\ keys.typed \subseteq keys.pressed)
    /\ [][(keys'.last.op = "clear_typed") => keys'.typed = {}]_vars
    /\ [][(\A key \in KeyCodes :
              (key \notin keys.typed /\ key \in keys'.typed) =>
                  keys'.last = [op |-> "Pressed", key |-> key])]_vars

C38_Witness ==
    /\ keys.last.op = "clear_typed"
    /\ keys.pressed # {}
    /\ keys.released # {}
====
